---- MODULE Spec2Model ----
(***************************************************************************)
(* SlurmSpawner (slurmspawner/slurmspawner.py): the per-user job record,   *)
(* the handlers start / poll / stop that the hub calls on the IOLoop       *)
(* thread, the single-worker executor that runs the submission and the     *)
(* graceful cancel, and the Slurm scheduler the commands talk to.          *)
(*                                                                         *)
(* All text is a TLA+ string; the output of a command that the code        *)
(* splits on whitespace is the sequence of its fields.                     *)
(***************************************************************************)
EXTENDS Integers, Sequences, FiniteSets, TLC

\* ---- bounds of the model ------------------------------------------------
\* number of jobs the scheduler accepts before it refuses every submission
MaxJobs == 2

\* the same number in the specification that is checked for liveness
MaxLiveJobs == 1

\* the users whose spawners live in this hub process
Owners == {"alice"}

\* the ports random_port() may hand out
RandomPorts == {9123}

\* ---- text ----------------------------------------------------------------
NoneVal == "<None>"

DigitChar == <<"1", "2", "3", "4", "5", "6", "7", "8", "9">>

\* str(n) of a non-negative integer
RECURSIVE Str(_)
Str(n) ==
    IF n < 10
    THEN (IF n = 0 THEN "0" ELSE DigitChar[n])
    ELSE Str(n \div 10) \o (IF n % 10 = 0 THEN "0" ELSE DigitChar[n % 10])

\* sum = 0; for c in str(port): sum += int(c)
RECURSIVE DigitSum(_)
DigitSum(n) == IF n < 10 THEN n ELSE DigitSum(n \div 10) + (n % 10)

\* hash = str(sum)
HashOf_port(port) == Str(port)

HashOf(port) == Str(DigitSum(port))

\* the last field of  out.split(' ') ; "".split(' ')[-1] is ""
LastField(fields) == IF fields = <<>> THEN "" ELSE fields[Len(fields)]

\* the reasons squeue prints for a job
ReasonNone == <<"None">>
ReasonHeld == <<"launch", "failed", "requeued", "held">>
ReasonJoined == <<"launch_failed_requeued_held">>
Reasons == {ReasonNone, ReasonHeld, ReasonJoined}

\* "failed" in <a field>, the substring test on one whitespace-free field
FieldHasFailed(field) == field \in {"failed", "launch_failed_requeued_held"}

\* "failed" in reason, reason a string: the substring test
FailedInText(fields) == \E i \in DOMAIN fields : FieldHasFailed(fields[i])

\* "failed" in reason, reason a list: membership of the exact field
FailedInList(fields) == \E i \in DOMAIN fields : fields[i] = "failed"

\* keyword in out, out the one state keyword squeue -o %T prints (or nothing):
\* no state keyword contains RUNNING or PENDING but itself
KeywordIn(kw, out) == out = kw

\* ---- the scheduler -------------------------------------------------------
VARIABLES
    jobs,           \* the scheduler's jobs, job number n at index n
    tokenFile,      \* /tmp/jupyter/<uid>, per owner
    slurm_job_id,   \* SlurmSpawner.slurm_job_id, per owner
    slurm_port,     \* SlurmSpawner.slurm_port, per owner
    server_ip,      \* user.server.ip, per owner
    server_port,    \* user.server.port, per owner
    run,            \* the frame of _run_jupyterhub_singleuser, per owner
    stp,            \* the frame of the stop() coroutine, per owner
    queue,          \* the executor's FIFO; its head is the task being run
    ev              \* the last step the spawner took

vars == <<jobs, tokenFile, slurm_job_id, slurm_port, server_ip, server_port,
          run, stp, queue, ev>>

JobNums(J) == 1 .. Len(J)

Known(J, id) == \E n \in JobNums(J) : Str(n) = id

JobNum(J, id) == CHOOSE n \in JobNums(J) : Str(n) = id

\* states squeue lists without -t
ListedStates == {"PENDING", "RUNNING", "COMPLETING"}

\* states squeue -j still prints for a job that has ended
EndedStates == {"CANCELLED", "COMPLETED", "FAILED"}

\* squeue -h -j <id> -o %T
StateOutput(J, id) == IF Known(J, id) THEN J[JobNum(J, id)].state ELSE ""

\* squeue -h -j <id> -O reason
ReasonOutput(J, id) ==
    IF Known(J, id) /\ J[JobNum(J, id)].state # ""
    THEN J[JobNum(J, id)].reason
    ELSE <<>>

\* squeue -h -j <id> -o %N ; with an empty id squeue prints every job's node
NodeOutput(J, id) ==
    IF id = ""
    THEN (IF \E n \in JobNums(J) : J[n].state \in {"RUNNING", "COMPLETING"}
          THEN "cn1" ELSE "")
    ELSE IF Known(J, id) /\ J[JobNum(J, id)].state \in {"RUNNING", "COMPLETING"}
         THEN "cn1" ELSE ""

\* host <node>
HostOutputs == { <<"cn1", "has", "address", "10.0.0.1">>,
                 <<"Host", "cn1", "not", "found:", "3(NXDOMAIN)">> }

\* one line of  squeue -h -u <user> --name=<jobname> -O jobid,comment,state,reason
ListingLine(J, n) == <<Str(n), J[n].comment, J[n].state>> \o J[n].reason

Listed(J, o) == { n \in JobNums(J) : J[n].owner = o /\ J[n].state \in ListedStates }

RECURSIVE Concat(_, _, _)
Concat(J, order, i) ==
    IF i > Len(order) THEN <<>>
    ELSE ListingLine(J, order[i]) \o Concat(J, order, i + 1)

\* the listing, its lines in any order the scheduler may sort them
ListingOutputs(J, o) ==
    LET S == Listed(J, o)
        Orders == { f \in [1 .. Cardinality(S) -> S] :
                      \A i, k \in 1 .. Cardinality(S) : i # k => f[i] # f[k] }
    IN  { Concat(J, f, 1) : f \in Orders }

\* scancel <id>, when the scheduler acts on it
Cancelled(J, id) ==
    IF ~ Known(J, id) THEN J
    ELSE LET n == JobNum(J, id) IN
         IF J[n].state = "PENDING" THEN [J EXCEPT ![n].state = "CANCELLED"]
         ELSE IF J[n].state = "RUNNING" THEN [J EXCEPT ![n].state = "COMPLETING"]
         ELSE J

\* what scancel prints: nothing, or a complaint
CancelOutputs == {"", "scancel: error"}

\* sbatch, accepted
Submitted(J, o, port) ==
    Append(J, [owner |-> o, comment |-> Str(port), state |-> "PENDING",
               reason |-> ReasonNone])

SbatchOutput(J) == <<"Submitted", "batch", "job", Str(Len(J))>>

\* ---- the spawner's helpers ------------------------------------------------
Cmd(c, id) == [c |-> c, id |-> id]

\* check_slurm_job_state: the state derived for job id
check_slurm_job_state_tokens(J, id) ==
    IF id = "" THEN ""
    ELSE LET out == StateOutput(J, id) IN
         IF KeywordIn("PENDING", out) /\ FailedInList(ReasonOutput(J, id))
         THEN "FAILED"
         ELSE out

check_slurm_job_state(J, id) ==
    IF id = "" THEN ""
    ELSE LET out == StateOutput(J, id) IN
         IF KeywordIn("PENDING", out) /\ FailedInText(ReasonOutput(J, id))
         THEN "FAILED"
         ELSE out

\* the commands check_slurm_job_state runs
check_slurm_job_state_cmds_always(J, id) ==
    <<Cmd("squeue_state", id)>> \o
    (IF KeywordIn("PENDING", StateOutput(J, id))
     THEN <<Cmd("squeue_reason", id)>> ELSE <<>>)

check_slurm_job_state_cmds(J, id) ==
    IF id = "" THEN <<>>
    ELSE <<Cmd("squeue_state", id)>> \o
         (IF KeywordIn("PENDING", StateOutput(J, id))
          THEN <<Cmd("squeue_reason", id)>> ELSE <<>>)

StoppedStates == {"CANCELLED", "COMPLETED", "FAILED", "COMPLETING", ""}

\* _stop_slurm_job: every way one call can go; ret is "True", "False" or
\* "raise" (SlurmException: Failed to cancel job)
stop_slurm_job_impl(J, id) ==
    IF id = ""
    THEN { [jobs |-> J, ret |-> "True", cmds |-> <<>>] }
    ELSE { LET J2 == IF acted THEN Cancelled(J, id) ELSE J IN
           IF output # ""
           THEN [jobs |-> J2, ret |-> "raise", cmds |-> <<Cmd("scancel", id)>>]
           ELSE [jobs |-> J2,
                 ret  |-> IF check_slurm_job_state(J2, id) \in StoppedStates
                          THEN "True" ELSE "False",
                 cmds |-> <<Cmd("scancel", id)>>
                          \o check_slurm_job_state_cmds(J2, id)]
           : output \in CancelOutputs, acted \in BOOLEAN }

\* query_slurm_by_jobname: the fields of the first line, the rest as reason
query_slurm_by_jobname(output) ==
    IF Len(output) > 0
    THEN [jobid |-> output[1], port |-> output[2], state |-> output[3],
          reason |-> SubSeq(output, 4, Len(output))]
    ELSE [jobid |-> "", port |-> "", state |-> "", reason |-> <<>>]

\* get_slurm_job_info: (node_ip, node_name), every way the lookup can go
get_slurm_job_info(J, id) ==
    LET node_name == NodeOutput(J, id) IN
    IF node_name = ""
    THEN { [ip |-> NoneVal, name |-> NoneVal] }
    ELSE { [ip |-> LastField(out), name |-> node_name] : out \in HostOutputs }

get_slurm_job_info_cmds(J, id) ==
    <<Cmd("squeue_node", id)>> \o
    (IF NodeOutput(J, id) = "" THEN <<>> ELSE <<Cmd("host", NodeOutput(J, id))>>)

\* start(): a job still COMPLETING is dropped from what the listing gave
completing_reset_keeps(q) == [jobid |-> q.jobid, port |-> q.port]

completing_reset(q) ==
    IF q.state = "COMPLETING"
    THEN [jobid |-> "", port |-> ""]
    ELSE [jobid |-> q.jobid, port |-> q.port]

\* start(): the listing found the user's server
found_running_never(jobid, port) == FALSE

found_running(jobid, port) == jobid # "" /\ port # ""

\* poll(): the job counts as alive
poll_alive_running_only(state) == KeywordIn("RUNNING", state)

poll_alive(state) == KeywordIn("RUNNING", state) \/ KeywordIn("PENDING", state)

\* _run_jupyterhub_singleuser: what one turn of the while loop does
loop_turn_gives_up(job_state) ==
    IF KeywordIn("RUNNING", job_state) THEN "break" ELSE "raise"

loop_turn(job_state) ==
    IF KeywordIn("RUNNING", job_state) THEN "break"
    ELSE IF KeywordIn("PENDING", job_state) THEN "again"
    ELSE "raise"

\* ---- the options of the job script ---------------------------------------
\* the configured defaults
mem == 400
ntasks == 1
cpus_per_task == 1
nodes == 1

\* a time text is the sequence of its characters
time == <<"1", "-", "0", "0", ":", "0", "0", ":", "0", "0">>

Digits == <<"0", "1", "2", "3", "4", "5", "6", "7", "8", "9">>

\* s.split(sep) with a separator: the pieces between the separators
RECURSIVE split(_, _)
split(s, sep) ==
    LET at == { i \in DOMAIN s : s[i] = sep } IN
    IF at = {} THEN <<s>>
    ELSE LET i == CHOOSE k \in at : \A m \in at : k <= m IN
         <<SubSeq(s, 1, i - 1)>> \o split(SubSeq(s, i + 1, Len(s)), sep)

\* int(s) does not raise ValueError: digits, after an optional sign
int_ok(s) ==
    LET body == IF s # <<>> /\ s[1] \in {"+", "-"} THEN Tail(s) ELSE s IN
    /\ body # <<>>
    /\ \A i \in DOMAIN body : \E d \in DOMAIN Digits : Digits[d] = body[i]

\* int(s) of an unsigned digit text
RECURSIVE int(_)
int(s) ==
    IF s = <<>> THEN 0
    ELSE 10 * int(SubSeq(s, 1, Len(s) - 1))
         + (CHOOSE d \in DOMAIN Digits : Digits[d] = s[Len(s)]) - 1

\* the four int() calls on form.time: raise is TRUE when one of them raises
\* ValueError or an index is out of range, days is the first number
parse_time(t) ==
    LET tokens == split(t, ":")
        dh == split(tokens[1], "-")
        bad == \/ ~ int_ok(dh[1])
               \/ Len(dh) < 2
               \/ ~ int_ok(dh[2])
               \/ Len(tokens) < 2
               \/ ~ int_ok(tokens[2])
               \/ Len(tokens) < 3
               \/ ~ int_ok(tokens[3])
    IN  [raise |-> bad,
         days  |-> IF bad THEN 0
                   ELSE IF dh[1][1] = "-" THEN 0 - int(Tail(dh[1]))
                   ELSE IF dh[1][1] = "+" THEN int(Tail(dh[1]))
                   ELSE int(dh[1])]

\* the options that go into the script, or the exception of the time check
render_time_unchecked(form) ==
    [raise  |-> FALSE,
     script |->
       IF ~ form.custom
       THEN [mem |-> mem, cpus |-> cpus_per_task, ntasks |-> ntasks,
             nodes |-> nodes, time |-> time]
       ELSE [mem    |-> IF form.memory > 0 THEN form.memory ELSE mem,
             cpus   |-> IF form.cpus > 0 /\ form.cpus <= 32
                        THEN form.cpus ELSE cpus_per_task,
             ntasks |-> IF form.tasks > 0 /\ form.tasks <= 128
                        THEN form.tasks ELSE ntasks,
             nodes  |-> IF form.nodes > 0 /\ form.nodes <= 32
                        THEN form.nodes ELSE nodes,
             time   |-> IF form.time # <<>> /\ ~ parse_time(form.time).raise
                           /\ parse_time(form.time).days <= 14
                        THEN form.time ELSE time]]

render(form) ==
    IF form.custom /\ form.time # <<>> /\ parse_time(form.time).raise
    THEN [raise |-> TRUE, script |-> <<>>]
    ELSE render_time_unchecked(form)

\* the forms the authenticator may hold when the job script is written
TimeTwoDays == <<"2", "-", "0", ":", "0", ":", "0">>
TimeLong == <<"1", "5", "-", "0", ":", "0", ":", "0">>
TimeWord == <<"n", "o", "w">>
TimeNoDays == <<"1", "2", ":", "0", ":", "0">>

Forms ==
    { [custom |-> FALSE, memory |-> 800, cpus |-> 2, tasks |-> 2, nodes |-> 2,
       time |-> TimeTwoDays],
      [custom |-> TRUE, memory |-> 800, cpus |-> 32, tasks |-> 128,
       nodes |-> 32, time |-> TimeTwoDays],
      [custom |-> TRUE, memory |-> 0, cpus |-> 33, tasks |-> 129,
       nodes |-> 33, time |-> TimeLong],
      [custom |-> TRUE, memory |-> 800, cpus |-> 0, tasks |-> 2,
       nodes |-> 0, time |-> <<>>],
      [custom |-> TRUE, memory |-> 800, cpus |-> 2, tasks |-> 2,
       nodes |-> 2, time |-> TimeWord],
      [custom |-> TRUE, memory |-> 800, cpus |-> 2, tasks |-> 2,
       nodes |-> 2, time |-> TimeNoDays] }

NoForm == [custom |-> FALSE, memory |-> 0, cpus |-> 0, tasks |-> 0,
           nodes |-> 0, time |-> <<>>]

\* ---- the state after construction ---------------------------------------
\* what /tmp/jupyter/<uid> may hold when the hub starts: nothing, or the hash
\* an earlier hub process wrote
PriorTokens == {"", "16"}

IdleRun == [pc |-> "idle", port |-> 0, job_state |-> "", submitted |-> "",
            queried |-> "", jobid |-> ""]

IdleStop == [pc |-> "idle", ret |-> "", first |-> "", attempts |-> 0]

NoListing == [jobid |-> "", port |-> "", state |-> "", reason |-> <<>>]

Record(o) == [id |-> slurm_job_id[o], port |-> slurm_port[o],
              ip |-> server_ip[o], sport |-> server_port[o]]

\* the journal: what the last step was and did
NoEvent ==
    [op |-> "none", owner |-> "", result |-> "", err |-> "", errjob |-> "",
     path |-> "", listed |-> NoListing, derived |-> "", cmds |-> <<>>,
     tokens |-> 0, submitted |-> "", queried |-> "", attempts |-> 0,
     first |-> "", oldtoken |-> "", form |-> NoForm, script |-> <<>>,
     pre |-> [id |-> "", port |-> "", ip |-> "", sport |-> ""]]

Event(op, o, fields) ==
    [f \in DOMAIN NoEvent |->
        IF f = "op" THEN op
        ELSE IF f = "owner" THEN o
        ELSE IF f = "pre" THEN Record(o)
        ELSE IF f \in DOMAIN fields THEN fields[f]
        ELSE NoEvent[f]]

Init ==
    /\ jobs = <<>>
    /\ tokenFile \in [Owners -> PriorTokens]
    /\ slurm_job_id = [o \in Owners |-> ""]
    /\ slurm_port = [o \in Owners |-> ""]
    /\ server_ip = [o \in Owners |-> ""]
    /\ server_port = [o \in Owners |-> ""]
    /\ run = [o \in Owners |-> IdleRun]
    /\ stp = [o \in Owners |-> IdleStop]
    /\ queue = <<>>
    /\ ev = NoEvent

\* get_state: the keys are only there when the values are not empty
get_state(o) ==
    LET keys == (IF slurm_job_id[o] # "" THEN {"slurm_job_id"} ELSE {})
                \cup (IF slurm_port[o] # "" THEN {"slurm_port"} ELSE {})
    IN  [k \in keys |-> IF k = "slurm_job_id" THEN slurm_job_id[o]
                                              ELSE slurm_port[o]]

\* load_state: what slurm_job_id and slurm_port become
load_state(state) ==
    [slurm_job_id |-> IF "slurm_job_id" \in DOMAIN state
                      THEN state["slurm_job_id"] ELSE "",
     slurm_port   |-> IF "slurm_port" \in DOMAIN state
                      THEN state["slurm_port"] ELSE ""]

\* clear_state
clear_state(o) ==
    /\ slurm_job_id' = [slurm_job_id EXCEPT ![o] = ""]
    /\ slurm_port' = [slurm_port EXCEPT ![o] = ""]

\* ---- the scheduler's own steps -------------------------------------------
SetJob(n, state, reason) ==
    /\ jobs' = [jobs EXCEPT ![n].state = state, ![n].reason = reason]
    /\ ev' = NoEvent
    /\ UNCHANGED <<tokenFile, slurm_job_id, slurm_port, server_ip,
                   server_port, run, stp, queue>>

\* a pending job is given a node
JobRuns(n) ==
    /\ jobs[n].state = "PENDING"
    /\ SetJob(n, "RUNNING", ReasonNone)

\* the reason of a pending job changes
JobReason(n) ==
    /\ jobs[n].state = "PENDING"
    /\ \E r \in Reasons \ {jobs[n].reason} : SetJob(n, "PENDING", r)

\* a running job ends, or its launch fails and it is requeued
JobExits(n) ==
    /\ jobs[n].state = "RUNNING"
    /\ \/ SetJob(n, "COMPLETING", ReasonNone)
       \/ SetJob(n, "COMPLETING", ReasonHeld)
       \/ SetJob(n, "FAILED", ReasonNone)

\* the epilog of a completing job is over
JobCompleted(n) ==
    /\ jobs[n].state = "COMPLETING"
    /\ IF jobs[n].reason = ReasonHeld
       THEN SetJob(n, "PENDING", ReasonHeld)
       ELSE SetJob(n, "COMPLETED", ReasonNone)

\* the scheduler forgets an ended job
JobPurged(n) ==
    /\ jobs[n].state \in EndedStates
    /\ jobs' = [jobs EXCEPT ![n].state = "", ![n].reason = ReasonNone,
                            ![n].comment = ""]
    /\ ev' = NoEvent
    /\ UNCHANGED <<tokenFile, slurm_job_id, slurm_port, server_ip,
                   server_port, run, stp, queue>>

\* ---- the handlers, on the IOLoop thread ----------------------------------
RunTask(o) == [kind |-> "run", owner |-> o]

StopTask(o) == [kind |-> "stop", owner |-> o]

\* start(): the listing, the stuck job, the reattachment, or the hand-over of
\* _run_jupyterhub_singleuser to the executor
start(o) ==
    /\ run[o].pc = "idle"
    /\ stp[o].pc = "idle"
    /\ \E output \in ListingOutputs(jobs, o) :
         LET q == query_slurm_by_jobname(output)
             jobid == completing_reset(q).jobid
             port == completing_reset(q).port
             listing == <<Cmd("squeue_list", o)>>
         IN
         IF FailedInList(q.reason)
         THEN \E r \in stop_slurm_job_impl(jobs, jobid) :
                /\ jobs' = r.jobs
                /\ server_port' = [server_port EXCEPT ![o] = port]
                /\ IF r.ret = "raise"
                   THEN /\ slurm_job_id' = [slurm_job_id EXCEPT ![o] = jobid]
                        /\ UNCHANGED slurm_port
                        /\ ev' = Event("start", o,
                                   [result |-> "raise", err |-> "cancel_failed",
                                    errjob |-> jobid, path |-> "stuck",
                                    listed |-> q, cmds |-> listing \o r.cmds])
                   ELSE /\ clear_state(o)
                        /\ ev' = Event("start", o,
                                   [result |-> "raise", err |-> "launch_failed",
                                    path |-> "stuck", listed |-> q,
                                    cmds |-> listing \o r.cmds])
                /\ UNCHANGED <<tokenFile, server_ip, run, stp, queue>>
         ELSE IF found_running(jobid, port)
         THEN \E info \in get_slurm_job_info(jobs, jobid) :
                /\ slurm_job_id' = [slurm_job_id EXCEPT ![o] = jobid]
                /\ server_port' = [server_port EXCEPT ![o] = port]
                /\ server_ip' = [server_ip EXCEPT ![o] = info.ip]
                /\ ev' = Event("start", o,
                           [result |-> "ok", path |-> "reattach", listed |-> q,
                            cmds |-> listing
                                     \o get_slurm_job_info_cmds(jobs, jobid)])
                /\ UNCHANGED <<jobs, tokenFile, slurm_port, run, stp, queue>>
         ELSE \E p \in RandomPorts :
                /\ slurm_job_id' = [slurm_job_id EXCEPT ![o] = jobid]
                /\ server_port' = [server_port EXCEPT ![o] = Str(p)]
                /\ run' = [run EXCEPT ![o] = [IdleRun EXCEPT !.pc = "queued",
                                                             !.port = p]]
                /\ queue' = Append(queue, RunTask(o))
                /\ ev' = Event("start", o,
                           [result |-> "dispatched", path |-> "fresh",
                            listed |-> q, cmds |-> listing])
                /\ UNCHANGED <<jobs, tokenFile, slurm_port, server_ip, stp>>

\* poll()
poll(o) ==
    LET id == slurm_job_id[o]
        state == check_slurm_job_state(jobs, id)
        cmds == check_slurm_job_state_cmds(jobs, id)
    IN
    IF poll_alive(state)
    THEN /\ ev' = Event("poll", o,
                    [result |-> "None", derived |-> state, cmds |-> cmds])
         /\ UNCHANGED <<jobs, tokenFile, slurm_job_id, slurm_port, server_ip,
                        server_port, run, stp, queue>>
    ELSE IF state = ""
    THEN /\ clear_state(o)
         /\ ev' = Event("poll", o,
                    [result |-> "127", derived |-> state, cmds |-> cmds])
         /\ UNCHANGED <<jobs, tokenFile, server_ip, server_port, run, stp, queue>>
    ELSE \E r \in stop_slurm_job_impl(jobs, id) :
           /\ jobs' = r.jobs
           /\ IF r.ret = "raise"
              THEN /\ ev' = Event("poll", o,
                              [result |-> "raise", err |-> "cancel_failed",
                               errjob |-> id, derived |-> state,
                               cmds |-> cmds \o r.cmds])
                   /\ UNCHANGED <<slurm_job_id, slurm_port>>
              ELSE /\ clear_state(o)
                   /\ ev' = Event("poll", o,
                              [result |-> "127", derived |-> state,
                               cmds |-> cmds \o r.cmds])
           /\ UNCHANGED <<tokenFile, server_ip, server_port, run, stp, queue>>

\* stop(now): the immediate stop clears the record, the graceful one first
\* hands _stop_slurm_job to the executor
stop(o, now) ==
    /\ stp[o].pc = "idle"
    /\ IF now
       THEN /\ clear_state(o)
            /\ ev' = Event("stop", o, [result |-> "ok", path |-> "now"])
            /\ UNCHANGED <<jobs, tokenFile, server_ip, server_port, run, stp,
                           queue>>
       ELSE /\ stp' = [stp EXCEPT ![o] = [IdleStop EXCEPT !.pc = "wait1"]]
            /\ queue' = Append(queue, StopTask(o))
            /\ ev' = Event("stop", o,
                       [result |-> "dispatched", path |-> "graceful"])
            /\ UNCHANGED <<jobs, tokenFile, slurm_job_id, slurm_port, server_ip,
                           server_port, run>>

\* stop() resumes with the result of a stop_slurm_job() it yielded on
stop_resume(o) ==
    /\ stp[o].pc \in {"ready1", "ready2"}
    /\ IF stp[o].ret = "raise"
       THEN /\ stp' = [stp EXCEPT ![o] = IdleStop]
            /\ ev' = Event("stop", o,
                       [result |-> "raise", err |-> "cancel_failed",
                        errjob |-> slurm_job_id[o], path |-> "graceful",
                        first |-> stp[o].first,
                        attempts |-> stp[o].attempts])
            /\ UNCHANGED <<jobs, tokenFile, slurm_job_id, slurm_port, server_ip,
                           server_port, run, queue>>
       ELSE IF stp[o].pc = "ready1" /\ stp[o].ret = "False"
       THEN /\ stp' = [stp EXCEPT ![o].pc = "wait2", ![o].ret = ""]
            /\ queue' = Append(queue, StopTask(o))
            /\ ev' = Event("stop", o,
                       [result |-> "dispatched", path |-> "graceful",
                        first |-> stp[o].first,
                        attempts |-> stp[o].attempts])
            /\ UNCHANGED <<jobs, tokenFile, slurm_job_id, slurm_port, server_ip,
                           server_port, run>>
       ELSE /\ clear_state(o)
            /\ stp' = [stp EXCEPT ![o] = IdleStop]
            /\ ev' = Event("stop", o,
                       [result |-> "ok", path |-> "graceful",
                        first |-> stp[o].first,
                        attempts |-> stp[o].attempts])
            /\ UNCHANGED <<jobs, tokenFile, server_ip, server_port, run, queue>>

\* ---- the tasks, on the executor's one worker thread ----------------------
\* _run_jupyterhub_singleuser up to the loop: the options of the script, the
\* hash file, sbatch, the job id, the first check_slurm_job_state()
run_submit(o) ==
    /\ queue # <<>>
    /\ Head(queue) = RunTask(o)
    /\ run[o].pc = "queued"
    /\ \E form \in Forms :
       LET r == render(form)
           written == [form |-> form, script |-> r.script, path |-> "fresh"]
       IN
       IF r.raise
       THEN \* int() or an index raises on form.time
            /\ run' = [run EXCEPT ![o] = IdleRun]
            /\ queue' = Tail(queue)
            /\ ev' = Event("run", o,
                       written @@ [result |-> "raise", err |-> "form_time"])
            /\ UNCHANGED <<jobs, tokenFile, slurm_job_id, slurm_port, server_ip,
                           server_port, stp>>
       ELSE
       \/ \* open(file_name, "w") raises IOError
          /\ run' = [run EXCEPT ![o] = IdleRun]
          /\ queue' = Tail(queue)
          /\ ev' = Event("run", o,
                     written @@ [result |-> "raise", err |-> "hash_file"])
          /\ UNCHANGED <<jobs, tokenFile, slurm_job_id, slurm_port, server_ip,
                         server_port, stp>>
       \/ \* sbatch prints nothing
          /\ tokenFile' = [tokenFile EXCEPT ![o] = HashOf(run[o].port)]
          /\ run' = [run EXCEPT ![o] = IdleRun]
          /\ queue' = Tail(queue)
          /\ ev' = Event("run", o,
                     written @@
                     [result |-> "raise", err |-> "not_attempted",
                      tokens |-> 1, oldtoken |-> tokenFile[o],
                      cmds |-> <<Cmd("sbatch", Str(run[o].port))>>])
          /\ UNCHANGED <<jobs, slurm_job_id, slurm_port, server_ip, server_port,
                         stp>>
       \/ \* sbatch prints "Submitted batch job <id>"
          /\ Len(jobs) < MaxJobs
          /\ LET J2 == Submitted(jobs, o, run[o].port)
                 id == LastField(SbatchOutput(J2))
                 job_state == check_slurm_job_state(J2, id)
             IN  /\ tokenFile' = [tokenFile EXCEPT ![o] = HashOf(run[o].port)]
                 /\ jobs' = J2
                 /\ slurm_job_id' = [slurm_job_id EXCEPT ![o] = id]
                 /\ run' = [run EXCEPT ![o].pc = "loop",
                                       ![o].submitted = id,
                                       ![o].queried = id,
                                       ![o].job_state = job_state]
                 /\ ev' = Event("run", o,
                            written @@
                            [result |-> "submitted",
                             derived |-> job_state, tokens |-> 1,
                             oldtoken |-> tokenFile[o],
                             submitted |-> id, queried |-> id,
                             cmds |-> <<Cmd("sbatch", Str(run[o].port))>>
                                      \o check_slurm_job_state_cmds(J2, id)])
          /\ UNCHANGED <<slurm_port, server_ip, server_port, stp, queue>>

\* one turn of  while True:  in _run_jupyterhub_singleuser; after the break
\* get_slurm_job_info(self.slurm_job_id) starts squeue -o %N
run_loop(o) ==
    /\ queue # <<>>
    /\ Head(queue) = RunTask(o)
    /\ run[o].pc = "loop"
    /\ LET job_state == run[o].job_state
           id == slurm_job_id[o]
           frame == [path |-> "fresh", derived |-> job_state,
                     submitted |-> run[o].submitted,
                     queried |-> run[o].queried]
       IN
       IF loop_turn(job_state) = "break"
       THEN /\ run' = [run EXCEPT ![o].pc = "node", ![o].jobid = id]
            /\ ev' = Event("run", o,
                       frame @@ [result |-> "resolving",
                                 cmds |-> <<Cmd("squeue_node", id)>>])
            /\ UNCHANGED <<jobs, tokenFile, slurm_job_id, slurm_port, server_ip,
                           server_port, stp, queue>>
       ELSE IF loop_turn(job_state) = "again"
       THEN /\ run' = [run EXCEPT
                         ![o].job_state = check_slurm_job_state(jobs, id),
                         ![o].queried = id]
            /\ ev' = Event("run", o,
                       frame @@ [result |-> "pending",
                                 cmds |-> check_slurm_job_state_cmds(jobs, id)])
            /\ UNCHANGED <<jobs, tokenFile, slurm_job_id, slurm_port, server_ip,
                           server_port, stp, queue>>
       ELSE /\ run' = [run EXCEPT ![o] = IdleRun]
            /\ queue' = Tail(queue)
            /\ ev' = Event("run", o,
                       frame @@ [result |-> "raise", err |-> "failed_to_start",
                                 errjob |-> id])
            /\ UNCHANGED <<jobs, tokenFile, slurm_job_id, slurm_port, server_ip,
                           server_port, stp>>

\* squeue -o %N has printed: the rest of get_slurm_job_info and of
\* _run_jupyterhub_singleuser
run_node(o) ==
    /\ queue # <<>>
    /\ Head(queue) = RunTask(o)
    /\ run[o].pc = "node"
    /\ LET id == slurm_job_id[o]
           frame == [path |-> "fresh", derived |-> run[o].job_state,
                     submitted |-> run[o].submitted,
                     queried |-> run[o].queried,
                     cmds |-> get_slurm_job_info_cmds(jobs, run[o].jobid)]
       IN
       \E info \in get_slurm_job_info(jobs, run[o].jobid) :
         /\ IF info.ip = NoneVal \/ info.name = NoneVal
            THEN /\ ev' = Event("run", o,
                            frame @@ [result |-> "raise",
                                      err |-> "no_node_info", errjob |-> id])
                 /\ UNCHANGED <<server_ip, server_port>>
            ELSE /\ server_ip' = [server_ip EXCEPT ![o] = info.ip]
                 /\ server_port' = [server_port EXCEPT ![o] = Str(run[o].port)]
                 /\ ev' = Event("run", o, frame @@ [result |-> "ok"])
         /\ run' = [run EXCEPT ![o] = IdleRun]
         /\ queue' = Tail(queue)
         /\ UNCHANGED <<jobs, tokenFile, slurm_job_id, slurm_port, stp>>

\* _stop_slurm_job as the executor's task
run_stop(o) ==
    /\ queue # <<>>
    /\ Head(queue) = StopTask(o)
    /\ stp[o].pc \in {"wait1", "wait2"}
    /\ \E r \in stop_slurm_job_impl(jobs, slurm_job_id[o]) :
         /\ jobs' = r.jobs
         /\ stp' = [stp EXCEPT
                      ![o].pc = IF stp[o].pc = "wait1" THEN "ready1" ELSE "ready2",
                      ![o].ret = r.ret,
                      ![o].first = IF stp[o].pc = "wait1" THEN r.ret ELSE @,
                      ![o].attempts = @ + (IF r.cmds = <<>> THEN 0 ELSE 1)]
         /\ queue' = Tail(queue)
         /\ ev' = Event("cancel", o,
                    [result |-> r.ret, path |-> "graceful", cmds |-> r.cmds])
         /\ UNCHANGED <<tokenFile, slurm_job_id, slurm_port, server_ip,
                        server_port, run>>

\* ---- the system ------------------------------------------------------------
Scheduler ==
    \E n \in JobNums(jobs) :
        \/ JobRuns(n)
        \/ JobReason(n)
        \/ JobExits(n)
        \/ JobCompleted(n)
        \/ JobPurged(n)

Hub ==
    \E o \in Owners :
        \/ start(o)
        \/ poll(o)
        \/ \E now \in BOOLEAN : stop(o, now)
        \/ stop_resume(o)

Worker ==
    \E o \in Owners :
        \/ run_submit(o)
        \/ run_loop(o)
        \/ run_node(o)
        \/ run_stop(o)

Next == Scheduler \/ Hub \/ Worker

Spec == Init /\ [][Next]_vars

\* the same system while the scheduler has accepted at most MaxLiveJobs jobs,
\* the worker thread running on with the task it has taken
LiveNext == Next /\ Len(jobs') <= MaxLiveJobs

LiveSpec ==
    Init /\ [][LiveNext]_vars
         /\ \A o \in Owners : WF_vars(run_loop(o)) /\ WF_vars(run_node(o))

\* ---- properties -------------------------------------------------------------
\* the last step ran command c on id / ran command c at all
Issued(c, id) == \E i \in DOMAIN ev.cmds : ev.cmds[i] = Cmd(c, id)

IssuedAny(c) == \E i \in DOMAIN ev.cmds : ev.cmds[i].c = c

\* the jobs of owner o the scheduler holds as submitted, pending, running or
\* completing
ActiveJobs(o) ==
    { n \in JobNums(jobs) : jobs[n].owner = o /\ jobs[n].state \in ListedStates }

\* the record of owner o is cleared
Cleared(o) == slurm_job_id[o] = "" /\ slurm_port[o] = ""

\* C1: in every reachable state the scheduler holds, for each owner, at most
\* one job of this spawner that is submitted, pending, running or completing.
C1_OneActiveJobPerOwner ==
    \A o \in Owners : Cardinality(ActiveJobs(o)) <= 1

\* C2: when the listing start() queried gives a job id and a port, a state
\* other than COMPLETING and no reason field "failed", start() adopts the job
\* id, runs no sbatch, writes no hash file, hands nothing to the executor and
\* returns.
C2_Reattach ==
    ( /\ ev.op = "start"
      /\ ev.listed.jobid # ""
      /\ ev.listed.port # ""
      /\ ev.listed.state # "COMPLETING"
      /\ ~ FailedInList(ev.listed.reason) )
    => /\ ev.result = "ok"
       /\ slurm_job_id[ev.owner] = ev.listed.jobid
       /\ server_port[ev.owner] = ev.listed.port
       /\ ~ IssuedAny("sbatch")
       /\ ev.tokens = 0
       /\ run[ev.owner].pc = "idle"
       /\ \A i \in DOMAIN queue : queue[i] # RunTask(ev.owner)

C2_Witness ==
    /\ ev.op = "start"
    /\ ev.path = "reattach"
    /\ ev.listed.state = "RUNNING"
    /\ slurm_job_id[ev.owner] = ev.listed.jobid

\* C3: whenever start() returns successfully, by the fresh submission or by
\* the reattachment, user.server.ip holds a non-empty node address.
C3_StartedHasAddress ==
    (ev.op \in {"start", "run"} /\ ev.result = "ok")
    => server_ip[ev.owner] \notin {"", NoneVal}

\* C4: whenever start() raises a launch failure (the job left RUNNING/PENDING
\* in the loop, sbatch was refused, there was no node information, or a stuck
\* job was found) the record is cleared by then.
C4_FailedStartClears ==
    ( /\ ev.op \in {"start", "run"}
      /\ ev.result = "raise"
      /\ ev.err \in {"failed_to_start", "not_attempted", "no_node_info",
                     "launch_failed", "cancel_failed"} )
    => Cleared(ev.owner)

\* C5: when the listing start() queried gives a job whose reason fields
\* include "failed", whatever its state, start() runs scancel on that job id,
\* clears the record, submits nothing and raises the launch failure.
C5_StuckJobAtStart ==
    ( /\ ev.op = "start"
      /\ ev.listed.jobid # ""
      /\ FailedInList(ev.listed.reason) )
    => /\ Issued("scancel", ev.listed.jobid)
       /\ Cleared(ev.owner)
       /\ ev.result = "raise"
       /\ ev.err = "launch_failed"
       /\ run[ev.owner].pc = "idle"

\* start() went on to a fresh submission: nothing adopted, a port from
\* random_port(), _run_jupyterhub_singleuser handed to the executor, no error
FreshSubmission(o) ==
    /\ ev.result = "dispatched"
    /\ slurm_job_id[o] = ""
    /\ run[o].pc = "queued"
    /\ run[o].port \in RandomPorts
    /\ server_port[o] = Str(run[o].port)
    /\ queue # <<>>
    /\ queue[Len(queue)] = RunTask(o)

\* C6, as claimed: whenever the listing start() queried reports the job
\* COMPLETING, start() drops the listed job id and port, takes a new port and
\* goes on to a fresh submission without raising.
C6_CompletingAlwaysFresh ==
    (ev.op = "start" /\ ev.listed.state = "COMPLETING")
    => FreshSubmission(ev.owner)

\* C6, amended: the same, when the reason fields parsed from the listing do
\* not include "failed".
C6_CompletingFresh ==
    ( /\ ev.op = "start"
      /\ ev.listed.state = "COMPLETING"
      /\ ~ FailedInList(ev.listed.reason) )
    => FreshSubmission(ev.owner)

C6_Witness ==
    /\ ev.op = "start"
    /\ ev.listed.state = "COMPLETING"
    /\ ev.listed.jobid # ""
    /\ ev.pre.id = ev.listed.jobid
    /\ FreshSubmission(ev.owner)

\* C7: on the fresh path start() succeeds only after a status query of the
\* submitted job id reported RUNNING, and at the first status query whose
\* derived state is neither RUNNING nor PENDING it raises the launch failure
\* that names the submitted job id.
C7_LoopOutcome ==
    (ev.op = "run" /\ ev.submitted # "" /\ ev.result # "submitted")
    => /\ ev.result = "ok"
          => (ev.derived = "RUNNING" /\ ev.queried = ev.submitted)
       /\ ev.derived \notin {"RUNNING", "PENDING"}
          => /\ ev.result = "raise"
             /\ ev.err = "failed_to_start"
             /\ ev.errjob = ev.submitted
       /\ ev.derived = "PENDING" => ev.result = "pending"

\* C9: poll() on a job derived as RUNNING or PENDING returns None, runs no
\* scancel and leaves job id, port and server address as they were.
C9_PollAliveNoOp ==
    (ev.op = "poll" /\ ev.derived \in {"RUNNING", "PENDING"})
    => /\ ev.result = "None"
       /\ ~ IssuedAny("scancel")
       /\ Record(ev.owner) = ev.pre

C9_Witness ==
    /\ ev.op = "poll"
    /\ ev.derived = "PENDING"
    /\ ev.result = "None"
    /\ slurm_job_id[ev.owner] # ""

\* C10: poll() on a tracked job id whose derived state is not RUNNING or
\* PENDING (COMPLETING, CANCELLED, COMPLETED, FAILED or nothing) runs scancel
\* on that job id, clears the record and returns 127, whatever scancel says.
C10_PollDeadClears ==
    ( /\ ev.op = "poll"
      /\ ev.pre.id # ""
      /\ ev.derived \notin {"RUNNING", "PENDING"} )
    => /\ Issued("scancel", ev.pre.id)
       /\ Cleared(ev.owner)
       /\ ev.result = "127"

\* C8: the loop in _run_jupyterhub_singleuser ends exactly when a status
\* query gives something other than PENDING: while the last derived state is
\* PENDING the task stays in the loop, whatever else happens, and once the
\* derived state is not PENDING start() completes.
C8_LoopEndsOnNonPending ==
    /\ [][ \A o \in Owners :
             (run[o].pc = "loop" /\ run[o].job_state = "PENDING")
             => run'[o].pc = "loop" ]_vars
    /\ \A o \in Owners :
         (run[o].pc = "loop" /\ run[o].job_state # "PENDING")
         ~> (run[o].pc = "idle")

C8_Witness ==
    /\ ev.op = "run"
    /\ ev.result = "pending"
    /\ ev.derived = "PENDING"
    /\ run[ev.owner].pc = "loop"
    /\ run[ev.owner].job_state = "PENDING"

\* what poll() leaves alone when it only reports
HubState == <<jobs, tokenFile, slurm_job_id, slurm_port, server_ip,
              server_port, run, stp, queue>>

\* C11: poll() on a record with no job id returns 127 and runs no squeue and
\* no scancel, and a second poll() right after it returns 127 again and leaves
\* the cleared record, and everything else, as the first one left it.
C11_PollUntracked ==
    (ev.op = "poll" /\ ev.pre.id = "")
    => /\ ev.result = "127"
       /\ ev.cmds = <<>>
       /\ Cleared(ev.owner)
       /\ ENABLED poll(ev.owner)
       /\ ~ ENABLED ( /\ poll(ev.owner)
                      /\ \/ ev'.result # "127"
                         \/ ev'.cmds # <<>>
                         \/ HubState' # HubState )

C11_Witness ==
    /\ ev.op = "poll"
    /\ ev.pre.id = ""
    /\ ev.result = "127"
    /\ Len(jobs) > 0
    /\ Cleared(ev.owner)

\* stop() has finished, by returning or by raising
StopFinished == ev.op = "stop" /\ ev.result \in {"ok", "raise"}

\* C12: stop() never raises, whatever scancel printed on the first or the
\* second attempt and whatever state the job is in afterwards.
C12_StopNeverRaises ==
    ev.op = "stop" => ev.result # "raise"

\* C13: when stop() finishes, graceful or not, and whether or not the cancel
\* was confirmed or failed, job id and port are empty.
C13_StopClears ==
    StopFinished => Cleared(ev.owner)

\* C14: a graceful stop() of a tracked job id runs scancel at most twice, and
\* a second time exactly when the first attempt was not confirmed (scancel
\* printed something, or the job was still alive afterwards).
C14_StopRetriesOnce ==
    (StopFinished /\ ev.path = "graceful" /\ ev.attempts > 0)
    => /\ ev.attempts <= 2
       /\ ev.attempts = 2 <=> ev.first \in {"raise", "False"}

\* the worker thread has a scheduler command running: squeue -o %N of
\* get_slurm_job_info
WorkerInFlight == \E o \in Owners : run[o].pc = "node"

\* the last step ran scheduler commands on the IOLoop thread
IOLoopIssued == ev.op \in {"start", "poll", "stop"} /\ ev.cmds # <<>>

\* C15: in no reachable state are two scheduler commands of the process
\* running at the same time: no handler runs a scheduler command while the
\* worker thread has one running.
C15_OneCommandInFlight ==
    ~ (IOLoopIssued /\ WorkerInFlight)

\* start() of owner o is between its sbatch and the end of its loop and node
\* resolution
StartMidway(o) == run[o].pc \in {"loop", "node"}

\* C16: no effect of stop(), graceful or not (scancel, clearing job id and
\* port), takes place while the same owner's start() is between its
\* submission and the end of its polling loop and node resolution.
C16_StopAfterStart ==
    ( /\ ev.op \in {"stop", "cancel"}
      /\ IssuedAny("scancel") \/ (ev.op = "stop" /\ ev.result = "ok") )
    => ~ StartMidway(ev.owner)

\* the sum of the decimal digits of a port number, as a decimal string
DigitsTotal(p) ==
    ToString(((p \div 10000) % 10) + ((p \div 1000) % 10)
             + ((p \div 100) % 10) + ((p \div 10) % 10) + (p % 10))

\* C17: whenever sbatch is run the hash file of the owner was written just
\* before it and holds the decimal string of the sum of the digits of the
\* port the submitted script carries, whatever it held before; and when the
\* hash file cannot be opened nothing is submitted and start() fails.
C17_TokenBeforeSubmission ==
    /\ \A p \in RandomPorts :
         (ev.op = "run" /\ Issued("sbatch", Str(p)))
         => /\ ev.tokens = 1
            /\ tokenFile[ev.owner] = DigitsTotal(p)
            /\ ev.submitted # ""
               => jobs[JobNum(jobs, ev.submitted)].comment = Str(p)
    /\ (ev.op = "run" /\ ev.err = "hash_file")
       => /\ ev.result = "raise"
          /\ ~ IssuedAny("sbatch")
          /\ ev.tokens = 0
          /\ ev.submitted = ""
          /\ run[ev.owner].pc = "idle"

C17_Witness ==
    /\ ev.op = "run"
    /\ IssuedAny("sbatch")
    /\ ev.submitted # ""
    /\ ev.oldtoken = "16"
    /\ tokenFile[ev.owner] = "15"

\* C18: after a successful start(), by submission or by reattachment,
\* get_state() holds the job id and the port chosen or adopted for the job,
\* so that load_state() of it gives both back; after clear_state() both are
\* empty.
C18_StatePersisted ==
    /\ (ev.op \in {"start", "run"} /\ ev.result = "ok")
       => LET st == load_state(get_state(ev.owner)) IN
          /\ st.slurm_job_id # ""
          /\ st.slurm_job_id = slurm_job_id[ev.owner]
          /\ st.slurm_port # ""
          /\ st.slurm_port = server_port[ev.owner]
    /\ (ev.op = "stop" /\ ev.result = "ok")
       => load_state(get_state(ev.owner))
          = [slurm_job_id |-> "", slurm_port |-> ""]

\* the worker's loop has just run check_slurm_job_state() on a job id
LoopQueried ==
    ev.op = "run" /\ ev.result = "pending" /\ slurm_job_id[ev.owner] # ""

\* the reason texts squeue prints that contain the substring "failed"
ReasonsWithFailed == {ReasonHeld, ReasonJoined}

\* C19: check_slurm_job_state() of a job id gives FAILED when squeue prints
\* PENDING and the reason text contains "failed", PENDING when squeue prints
\* PENDING and the reason does not, and otherwise what squeue printed, with
\* no reason query.
C19_StatusDerivation ==
    LoopQueried
    => LET id == slurm_job_id[ev.owner]
           out == IF \E n \in JobNums(jobs) : Str(n) = id
                  THEN jobs[CHOOSE n \in JobNums(jobs) : Str(n) = id].state
                  ELSE ""
           reason == IF out = ""
                     THEN <<>>
                     ELSE jobs[CHOOSE n \in JobNums(jobs) : Str(n) = id].reason
           derived == run[ev.owner].job_state
       IN  /\ Issued("squeue_state", id)
           /\ (out = "PENDING" /\ reason \in ReasonsWithFailed)
              => (derived = "FAILED" /\ Issued("squeue_reason", id))
           /\ (out = "PENDING" /\ reason \notin ReasonsWithFailed)
              => (derived = "PENDING" /\ Issued("squeue_reason", id))
           /\ out # "PENDING"
              => (derived = out /\ ~ IssuedAny("squeue_reason"))

C19_Witness ==
    /\ LoopQueried
    /\ run[ev.owner].job_state = "FAILED"
    /\ \E n \in JobNums(jobs) :
         /\ Str(n) = slurm_job_id[ev.owner]
         /\ jobs[n].state = "PENDING"
         /\ jobs[n].reason = ReasonJoined

\* the override of a field is within its bounds
MemoryOK(form) == form.memory > 0
CpusOK(form) == form.cpus > 0 /\ form.cpus <= 32
TasksOK(form) == form.tasks > 0 /\ form.tasks <= 128
NodesOK(form) == form.nodes > 0 /\ form.nodes <= 32

\* the forms' wall times that read as days-hours:minutes:seconds with at most
\* 14 days
TimesOK == {TimeTwoDays}

\* C20: with a custom request every option of the script is the override
\* when that is within its bounds and the configured default when it is not,
\* each field on its own, and an override that is out of bounds or cannot be
\* parsed raises no error.
C20_OverrideOrDefault ==
    (ev.op = "run" /\ ev.form.custom)
    => /\ ev.err # "form_time"
       /\ ev.script # <<>>
       /\ ev.script.mem = IF MemoryOK(ev.form) THEN ev.form.memory ELSE mem
       /\ ev.script.cpus = IF CpusOK(ev.form) THEN ev.form.cpus
                           ELSE cpus_per_task
       /\ ev.script.ntasks = IF TasksOK(ev.form) THEN ev.form.tasks
                             ELSE ntasks
       /\ ev.script.nodes = IF NodesOK(ev.form) THEN ev.form.nodes ELSE nodes
       /\ ev.script.time = IF ev.form.time \in TimesOK THEN ev.form.time
                           ELSE time

\* the commands that name one job
JobCommands == {"scancel", "squeue_state", "squeue_reason", "squeue_node"}

\* C21: under every interleaving of start(), poll() and stop() no command
\* that names one job (scancel, the state and reason queries, the node
\* query) is run with an empty job id; with an empty job id _stop_slurm_job
\* returns True and check_slurm_job_state returns the empty state, both
\* without running a command.
C21_NoEmptyJobId ==
    /\ \A i \in DOMAIN ev.cmds :
         ev.cmds[i].c \in JobCommands => ev.cmds[i].id # ""
    /\ stop_slurm_job_impl(jobs, "")
         = { [jobs |-> jobs, ret |-> "True", cmds |-> <<>>] }
    /\ check_slurm_job_state(jobs, "") = ""
    /\ check_slurm_job_state_cmds(jobs, "") = <<>>

====
